---- MODULE Spec2Model ----
(***************************************************************************)
(* Model of the 2D drawing core: the transformation Context (context.rs),  *)
(* its Transform / ViewTransform properties, and Image::draw (image.rs)    *)
(* issuing calls to a back-end that is modelled as a recorder of the calls *)
(* it receives.                                                            *)
(*                                                                         *)
(* Scalars.  The code computes in IEEE-754 binary floating point.  A       *)
(* scalar is modelled as a pair <<n, d>>: a finite value is the reduced    *)
(* fraction n/d with d > 0, <<1,0>> is +inf, <<-1,0>> is -inf and <<0,0>>  *)
(* is NaN.  The operators below follow the IEEE rules for the special      *)
(* values (x/0 = inf, 0/0 = NaN, inf*0 = NaN, inf-inf = NaN, NaN # NaN).   *)
(* Every input the model draws is a dyadic rational of small magnitude     *)
(* (or zero), and so is every finite value computed from them, so the      *)
(* rounding of the hardware never acts on the values explored here.  The   *)
(* sign of zero is not kept: it is invisible to == and changes only the    *)
(* sign of the infinity that a division by zero yields.                    *)
(***************************************************************************)
EXTENDS Integers, Sequences, FiniteSets, TLC

VARIABLES
    ctx,    \* the Context values bound so far: binding name -> Context
    hist,   \* per binding: the constructor and operations that produced it
    last,   \* the most recent call: its name, arguments and return value
    calls,  \* the back-end: the calls it has received, in order
    draws   \* number of Image::draw invocations so far

vars == <<ctx, hist, last, calls, draws>>

\* Longest chain of derivations (trans, scale, rot_deg, set) from a constructor.
MaxDerived == 2
\* Number of Image::draw invocations in one run.
MaxDraws == 2

-----------------------------------------------------------------------------
\* Scalar arithmetic (f64 / f32)

AbsInt(n) == IF n < 0 THEN -n ELSE n

SignInt(n) == IF n > 0 THEN 1 ELSE IF n < 0 THEN -1 ELSE 0

RECURSIVE GCD(_, _)
GCD(a, b) == IF b = 0 THEN a ELSE GCD(b, a % b)

\* The scalar n/d in canonical form.
Norm(n, d) ==
    IF d = 0 THEN <<SignInt(n), 0>>
    ELSE LET g == GCD(AbsInt(n), AbsInt(d))
         IN  <<(SignInt(d) * n) \div g, AbsInt(d) \div g>>

\* An integer literal, or an integer converted with `as Scalar`.
F(n) == <<n, 1>>

NaN == <<0, 0>>
PosInf == <<1, 0>>
NegInf == <<-1, 0>>

IsFinite(a) == a[2] # 0

FAdd(a, b) ==
    IF a[2] = 0 /\ b[2] = 0
    THEN IF a = b THEN a ELSE NaN
    ELSE Norm(a[1] * b[2] + b[1] * a[2], a[2] * b[2])

FMul(a, b) == Norm(a[1] * b[1], a[2] * b[2])

FRecip(b) == Norm(b[2], b[1])

FDiv(a, b) == FMul(a, FRecip(b))

\* The == of floating point: NaN equals nothing.
FEq(a, b) == a # NaN /\ b # NaN /\ a = b

\* A value whose denominator is a power of two is represented exactly.
RECURSIVE IsPow2(_)
IsPow2(d) == IF d = 1 THEN TRUE
             ELSE IF d <= 0 \/ d % 2 # 0 THEN FALSE
             ELSE IsPow2(d \div 2)

Dyadic(a) == IsFinite(a) /\ IsPow2(a[2])

-----------------------------------------------------------------------------
\* Matrix2d: 2 rows of 3 scalars.  transform[i][j] of the code is m[i+1][j+1].

identity == <<<<F(1), F(0), F(0)>>, <<F(0), F(1), F(0)>>>>

multiply(a, b) ==
    << << FAdd(FMul(a[1][1], b[1][1]), FMul(a[1][2], b[2][1])),
          FAdd(FMul(a[1][1], b[1][2]), FMul(a[1][2], b[2][2])),
          FAdd(FAdd(FMul(a[1][1], b[1][3]), FMul(a[1][2], b[2][3])), a[1][3]) >>,
       << FAdd(FMul(a[2][1], b[1][1]), FMul(a[2][2], b[2][1])),
          FAdd(FMul(a[2][1], b[1][2]), FMul(a[2][2], b[2][2])),
          FAdd(FAdd(FMul(a[2][1], b[1][3]), FMul(a[2][2], b[2][3])), a[2][3]) >> >>

translate(x, y) == <<<<F(1), F(0), x>>, <<F(0), F(1), y>>>>

scale_mat(sx, sy) == <<<<sx, F(0), F(0)>>, <<F(0), sy, F(0)>>>>

\* cos and sin at whole quarter turns, where the exact values are 0, 1, -1
\* (the code's results differ from them by less than the tests' 1e-5).
CosDeg(a) == CASE a = 0 -> F(1) [] a = 90 -> F(0) [] a = 180 -> F(-1) [] a = 270 -> F(0)

SinDeg(a) == CASE a = 0 -> F(0) [] a = 90 -> F(1) [] a = 180 -> F(0) [] a = 270 -> F(-1)

rotate_deg_mat(a) ==
    <<<<CosDeg(a), FMul(F(-1), SinDeg(a)), F(0)>>, <<SinDeg(a), CosDeg(a), F(0)>>>>

\* The point (x, y) under the affine map m.
transform_pos(m, x, y) ==
    << FAdd(FAdd(FMul(m[1][1], x), FMul(m[1][2], y)), m[1][3]),
       FAdd(FAdd(FMul(m[2][1], x), FMul(m[2][2], y)), m[2][3]) >>

-----------------------------------------------------------------------------
\* Context

default_draw_state ==
    [primitive_method |-> "Fill(CullFace::Nothing)", blend |-> "BlendPreset::Alpha"]

Context_new_Shifted ==
    [view |-> identity,
     transform |-> <<<<F(1), F(0), F(-1)>>, <<F(0), F(1), F(1)>>>>,
     draw_state |-> default_draw_state]

Context_new ==
    [view |-> identity, transform |-> identity, draw_state |-> default_draw_state]

Context_abs_NoFlip(w, h) ==
    LET sx == FDiv(F(2), w)
        sy == FDiv(F(2), h)
        mat == <<<<sx, F(0), F(-1)>>, <<F(0), sy, F(1)>>>>
    IN  [view |-> mat, transform |-> mat, draw_state |-> default_draw_state]

Context_abs(w, h) ==
    LET sx == FDiv(F(2), w)
        sy == FDiv(F(-2), h)
        mat == <<<<sx, F(0), F(-1)>>, <<F(0), sy, F(1)>>>>
    IN  [view |-> mat, transform |-> mat, draw_state |-> default_draw_state]

\* quack! get
Get_Transform_ReadsView(c) == c.view

Get_Transform(c) == c.transform

Get_ViewTransform(c) == c.view

\* quack! set
Set_Transform_WritesView(c, val) == [c EXCEPT !.view = val]

Set_Transform(c, val) == [c EXCEPT !.transform = val]

Set_ViewTransform_WritesBoth(c, val) == [c EXCEPT !.view = val, !.transform = val]

Set_ViewTransform(c, val) == [c EXCEPT !.view = val]

\* RelativeTransform: the delta is multiplied onto the current transform and
\* the product is set as the Transform property of a copy.
trans(c, x, y) == Set_Transform(c, multiply(Get_Transform(c), translate(x, y)))

scale(c, sx, sy) == Set_Transform(c, multiply(Get_Transform(c), scale_mat(sx, sy)))

rot_deg(c, a) == Set_Transform(c, multiply(Get_Transform(c), rotate_deg_mat(a)))

-----------------------------------------------------------------------------
\* Bindings.  Context is Copy: an operation reads its receiver and its result
\* is bound to a name; the receiver's binding is not written.

Slots == {"c", "d"}

Bind_InPlace(store, src, dst, val) ==
    [s \in DOMAIN store \cup {src, dst} |-> IF s \in {src, dst} THEN val ELSE store[s]]

Bind(store, src, dst, val) ==
    [s \in DOMAIN store \cup {dst} |-> IF s = dst THEN val ELSE store[s]]

Bound(s) == s \in DOMAIN ctx

\* Inputs
AbsSizes == {F(0), F(2), F(4)}
DrawViewports == {<<F(4), F(2)>>}
DrawDeltas == {<<F(10), F(10)>>}
Deltas == {<<F(20), F(40)>>, <<F(10), F(10)>>, <<F(-1), F(0)>>}
Factors == {<<F(2), F(3)>>, <<F(-1), <<1, 2>>>>}
Angles == {90}
Matrices == {<<<<F(3), F(0), F(5)>>, <<F(0), F(1), F(-2)>>>>,
             <<<<F(0), F(1), F(0)>>, <<F(-1), F(0), F(7)>>>>}

\* Receiver and result binding of a derivation: d = c.op(..) or d = d.op(..).
CanDerive(src, dst) ==
    /\ dst = "d"
    /\ Bound(src)
    /\ Len(hist[src]) <= MaxDerived

Derive(src, dst, val, op) ==
    /\ ctx' = Bind(ctx, src, dst, val)
    /\ hist' = [s \in DOMAIN hist \cup {dst} |->
                   IF s = dst THEN Append(hist[src], op) ELSE hist[s]]
    /\ last' = [op |-> op.op, src |-> src, dst |-> dst, arg |-> op]
    /\ UNCHANGED <<calls, draws>>

Construct(val, op) ==
    /\ ~Bound("c")
    /\ ctx' = Bind(ctx, "c", "c", val)
    /\ hist' = [s \in DOMAIN hist \cup {"c"} |-> IF s = "c" THEN <<op>> ELSE hist[s]]
    /\ last' = [op |-> op.op, dst |-> "c", arg |-> op]
    /\ UNCHANGED <<calls, draws>>

New == Construct(Context_new, [op |-> "new"])

Abs(w, h) == Construct(Context_abs(w, h), [op |-> "abs", w |-> w, h |-> h])

Trans(src, dst, x, y) ==
    /\ CanDerive(src, dst)
    /\ Derive(src, dst, trans(ctx[src], x, y), [op |-> "trans", x |-> x, y |-> y])

Scale(src, dst, sx, sy) ==
    /\ CanDerive(src, dst)
    /\ Derive(src, dst, scale(ctx[src], sx, sy), [op |-> "scale", sx |-> sx, sy |-> sy])

RotDeg(src, dst, a) ==
    /\ CanDerive(src, dst)
    /\ Derive(src, dst, rot_deg(ctx[src], a), [op |-> "rot_deg", angle |-> a])

SetTransform(src, dst, m) ==
    /\ CanDerive(src, dst)
    /\ Derive(src, dst, Set_Transform(ctx[src], m), [op |-> "set_transform", val |-> m])

SetViewTransform(src, dst, m) ==
    /\ CanDerive(src, dst)
    /\ Derive(src, dst, Set_ViewTransform(ctx[src], m), [op |-> "set_view", val |-> m])

GetTransform(src) ==
    /\ Bound(src)
    /\ last' = [op |-> "get_transform", src |-> src, ret |-> Get_Transform(ctx[src])]
    /\ UNCHANGED <<ctx, hist, calls, draws>>

GetViewTransform(src) ==
    /\ Bound(src)
    /\ last' = [op |-> "get_view", src |-> src, ret |-> Get_ViewTransform(ctx[src])]
    /\ UNCHANGED <<ctx, hist, calls, draws>>

Init ==
    /\ ctx = [s \in {} |-> Context_new]
    /\ hist = [s \in {} |-> <<>>]
    /\ last = [op |-> "none"]
    /\ calls = <<>>
    /\ draws = 0

Next ==
    \/ New
    \/ \E w \in AbsSizes, h \in AbsSizes : Abs(w, h)
    \/ \E src \in Slots, dst \in Slots, v \in Deltas : Trans(src, dst, v[1], v[2])
    \/ \E src \in Slots, dst \in Slots, v \in Factors : Scale(src, dst, v[1], v[2])
    \/ \E src \in Slots, dst \in Slots, a \in Angles : RotDeg(src, dst, a)
    \/ \E src \in Slots, dst \in Slots, m \in Matrices : SetTransform(src, dst, m)
    \/ \E src \in Slots, dst \in Slots, m \in Matrices : SetViewTransform(src, dst, m)
    \/ \E src \in Slots : GetTransform(src)
    \/ \E src \in Slots : GetViewTransform(src)

Spec == Init /\ [][Next]_vars

-----------------------------------------------------------------------------
\* Image::draw and the back-end

\* A texture reports its size (ImageSize).
Textures == {[name |-> "tex_a", w |-> 2, h |-> 2], [name |-> "tex_b", w |-> 4, h |-> 2]}

Tex(n) == CHOOSE t \in Textures : t.name = n

\* Image { texture, color: [f32; 4], source_rectangle: [i32; 4] = (x, y, w, h) }
Images ==
    { [texture |-> Tex("tex_a"), color |-> <<F(1), F(1), F(1), F(0)>>,
       source_rectangle |-> <<0, 0, 2, 2>>],
      [texture |-> Tex("tex_a"), color |-> <<F(1), F(1), F(1), F(1)>>,
       source_rectangle |-> <<0, 0, 2, 2>>],
      [texture |-> Tex("tex_b"), color |-> <<F(1), F(0), F(0), <<1, 2>>>>,
       source_rectangle |-> <<1, 0, 2, 2>>],
      [texture |-> Tex("tex_b"), color |-> <<F(0), F(1), F(1), F(1)>>,
       source_rectangle |-> <<2, 1, 1, 1>>] }

\* triangulation: the rectangle (x, y, w, h) as two triangles sharing a
\* diagonal, six vertices in a flat buffer x0, y0, x1, y1, ...
Flat6(p1, p2, p3, p4, p5, p6) ==
    <<p1[1], p1[2], p2[1], p2[2], p3[1], p3[2], p4[1], p4[2], p5[1], p5[2], p6[1], p6[2]>>

rect_tri_list_xy(m, rect) ==
    LET x == rect[1]
        y == rect[2]
        x2 == FAdd(rect[1], rect[3])
        y2 == FAdd(rect[2], rect[4])
    IN  Flat6(transform_pos(m, x, y), transform_pos(m, x2, y), transform_pos(m, x, y2),
              transform_pos(m, x2, y), transform_pos(m, x2, y2), transform_pos(m, x, y2))

rect_tri_list_uv(texture, source_rect) ==
    LET x1 == FDiv(F(source_rect[1]), F(texture.w))
        y1 == FDiv(F(source_rect[2]), F(texture.h))
        x2 == FDiv(F(source_rect[1] + source_rect[3]), F(texture.w))
        y2 == FDiv(F(source_rect[2] + source_rect[4]), F(texture.h))
    IN  Flat6(<<x1, y1>>, <<x2, y1>>, <<x1, y2>>, <<x2, y1>>, <<x2, y2>>, <<x1, y2>>)

\* let rect = [0.0, 0.0, source_rectangle[2] as Scalar, source_rectangle[3] as Scalar]
DrawRect_AtSource(image) ==
    <<F(image.source_rectangle[1]), F(image.source_rectangle[2]),
      F(image.source_rectangle[3]), F(image.source_rectangle[4])>>

DrawRect(image) ==
    <<F(0), F(0), F(image.source_rectangle[3]), F(image.source_rectangle[4])>>

\* if self.color[3] == 0.0 { return; }
Transparent_WrongChannel(image) == FEq(image.color[2], F(0))

Transparent(image) == FEq(image.color[4], F(0))

\* The back-end calls of the body of Image::draw after the early return.
DrawCalls_NoDisable(image, c) ==
    << [op |-> "enable_texture", texture |-> image.texture],
       [op |-> "color", color |-> image.color],
       [op |-> "tri_list_uv",
        xy |-> rect_tri_list_xy(c.transform, DrawRect(image)),
        uv |-> rect_tri_list_uv(image.texture, image.source_rectangle)] >>

DrawCalls(image, c) ==
    << [op |-> "enable_texture", texture |-> image.texture],
       [op |-> "color", color |-> image.color],
       [op |-> "tri_list_uv",
        xy |-> rect_tri_list_xy(c.transform, DrawRect(image)),
        uv |-> rect_tri_list_uv(image.texture, image.source_rectangle)],
       [op |-> "disable_texture"] >>

\* Image::draw(&self, c, back_end): the calls the back-end receives.
Image_draw(image, c) == IF Transparent(image) THEN <<>> ELSE DrawCalls(image, c)

Draw(src, image) ==
    /\ Bound(src)
    /\ draws < MaxDraws
    /\ calls' = calls \o Image_draw(image, ctx[src])
    /\ draws' = draws + 1
    /\ last' = [op |-> "draw", src |-> src, image |-> image]
    /\ UNCHANGED <<ctx, hist>>

NextDraw ==
    \/ New
    \/ \E v \in DrawViewports : Abs(v[1], v[2])
    \/ \E src \in Slots, dst \in Slots, v \in DrawDeltas : Trans(src, dst, v[1], v[2])
    \/ \E src \in Slots, image \in Images : Draw(src, image)

SpecDraw == Init /\ [][NextDraw]_vars

-----------------------------------------------------------------------------
\* Properties

Last(h) == h[Len(h)]

IsDrawStep == draws' = draws + 1

\* C1: a draw of an image whose alpha (color[3]) is 0 makes no back-end call:
\* the back-end has received the same calls after the draw as before it.
C1_TransparentDrawMakesNoCall ==
    [][(IsDrawStep /\ FEq(last'.image.color[4], F(0))) => calls' = calls]_vars

C1_Witness ==
    /\ last.op = "draw"
    /\ FEq(last.image.color[4], F(0))
    /\ draws = 2
    /\ Len(calls) = 4

CountOp(seq, op) == Cardinality({i \in DOMAIN seq : seq[i].op = op})

\* Number of textures enabled and not yet disabled after the first k calls.
EnabledAfter(k) ==
    CountOp(SubSeq(calls, 1, k), "enable_texture")
        - CountOp(SubSeq(calls, 1, k), "disable_texture")

\* C2: a draw of an image whose alpha is not 0 issues exactly enable_texture(texture),
\* color(color), tri_list_uv, disable_texture, once each and in this order; so at any
\* time enables and disables are equal in number, every tri_list_uv has a texture
\* enabled, and none is enabled once draw has returned.
C2_OpaqueDrawIssuesFourCallsInOrder ==
    /\ [][(IsDrawStep /\ ~FEq(last'.image.color[4], F(0))) =>
            LET n == Len(calls) IN
            /\ Len(calls') = n + 4
            /\ SubSeq(calls', 1, n) = calls
            /\ calls'[n + 1] = [op |-> "enable_texture", texture |-> last'.image.texture]
            /\ calls'[n + 2] = [op |-> "color", color |-> last'.image.color]
            /\ calls'[n + 3].op = "tri_list_uv"
            /\ calls'[n + 4] = [op |-> "disable_texture"]]_vars
    /\ [](/\ CountOp(calls, "enable_texture") = CountOp(calls, "disable_texture")
          /\ EnabledAfter(Len(calls)) = 0
          /\ \A k \in 0..Len(calls) : EnabledAfter(k) \in {0, 1}
          /\ \A i \in DOMAIN calls : calls[i].op = "tri_list_uv" => EnabledAfter(i) = 1)

C2_Witness ==
    /\ last.op = "draw"
    /\ draws = 2
    /\ Len(calls) = 8
    /\ calls[1].texture # calls[5].texture

\* C3: a get that directly follows a set of the same property returns the value set.
C3_GetAfterSetReturnsValue ==
    /\ (last.op = "get_transform" /\ Last(hist[last.src]).op = "set_transform")
          => last.ret = Last(hist[last.src]).val
    /\ (last.op = "get_view" /\ Last(hist[last.src]).op = "set_view")
          => last.ret = Last(hist[last.src]).val

C3_Witness ==
    /\ last.op = "get_transform"
    /\ Last(hist[last.src]).op = "set_transform"
    /\ ctx[last.src].view # ctx[last.src].transform

\* C4: setting Transform replaces transform and leaves view and draw_state as they
\* were in the receiver; setting ViewTransform replaces view and leaves transform and
\* draw_state; a get changes no context.
C4_SetChangesOnlyItsField ==
    [][/\ last'.op = "set_transform" =>
            /\ ctx'[last'.dst].transform = last'.arg.val
            /\ ctx'[last'.dst].view = ctx[last'.src].view
            /\ ctx'[last'.dst].draw_state = ctx[last'.src].draw_state
       /\ last'.op = "set_view" =>
            /\ ctx'[last'.dst].view = last'.arg.val
            /\ ctx'[last'.dst].transform = ctx[last'.src].transform
            /\ ctx'[last'.dst].draw_state = ctx[last'.src].draw_state
       /\ last'.op \in {"get_transform", "get_view"} => ctx' = ctx]_vars

C4_Witness ==
    /\ last.op = "set_view"
    /\ Len(hist["d"]) = 3
    /\ hist["d"][2].op = "trans"
    /\ ctx["d"].transform # ctx["d"].view
    /\ ctx["d"].transform # identity

\* The matrix the documentation of abs gives: [[2/w, 0, -1], [0, -2/h, 1]].
AbsMatrix(w, h) ==
    <<<<FDiv(F(2), w), F(0), F(-1)>>, <<F(0), FDiv(F(-2), h), F(1)>>>>

PairEq(p, x, y) == FEq(p[1], x) /\ FEq(p[2], y)

\* C5 as stated: for every w and h, abs(w, h) has view = transform = AbsMatrix(w, h),
\* which maps (0, 0) to (-1, 1) and (w, h) to (1, -1).
C5_AbsMapsCornersForEverySize ==
    last.op = "abs" =>
        LET w == last.arg.w
            h == last.arg.h
            c == ctx[last.dst]
        IN  /\ c.view = AbsMatrix(w, h)
            /\ c.transform = AbsMatrix(w, h)
            /\ PairEq(transform_pos(c.transform, F(0), F(0)), F(-1), F(1))
            /\ PairEq(transform_pos(c.transform, w, h), F(1), F(-1))

\* C5 amended: for every w and h, abs(w, h) has view = transform = AbsMatrix(w, h);
\* when w and h are not zero it maps (0, 0) to (-1, 1), and when moreover 2/w and
\* 2/h are exact it maps (w, h) to (1, -1).
C5_AbsMapsCornersForNonZeroSize ==
    last.op = "abs" =>
        LET w == last.arg.w
            h == last.arg.h
            c == ctx[last.dst]
        IN  /\ c.view = AbsMatrix(w, h)
            /\ c.transform = AbsMatrix(w, h)
            /\ (IsFinite(w) /\ IsFinite(h) /\ ~FEq(w, F(0)) /\ ~FEq(h, F(0))) =>
                  /\ PairEq(transform_pos(c.transform, F(0), F(0)), F(-1), F(1))
                  /\ (Dyadic(FDiv(F(2), w)) /\ Dyadic(FDiv(F(2), h))) =>
                        PairEq(transform_pos(c.transform, w, h), F(1), F(-1))

C5_Witness ==
    /\ last.op = "abs"
    /\ last.arg.w = F(4)
    /\ last.arg.h = F(2)
    /\ ctx["c"].transform = <<<<<<1, 2>>, F(0), F(-1)>>, <<F(0), F(-1), F(1)>>>>

\* C6: trans(tx1, ty1) then trans(tx2, ty2) on a fresh Context::new() gives a
\* transform whose translation column is (tx1 + tx2, ty1 + ty2).
C6_TranslationsAdd ==
    \A s \in DOMAIN ctx :
        (/\ Len(hist[s]) = 3
         /\ hist[s][1].op = "new"
         /\ hist[s][2].op = "trans"
         /\ hist[s][3].op = "trans")
        => /\ FEq(ctx[s].transform[1][3], FAdd(hist[s][2].x, hist[s][3].x))
           /\ FEq(ctx[s].transform[2][3], FAdd(hist[s][2].y, hist[s][3].y))

C6_Witness ==
    /\ "d" \in DOMAIN ctx
    /\ hist["d"] = <<[op |-> "new"], [op |-> "trans", x |-> F(20), y |-> F(40)],
                     [op |-> "trans", x |-> F(10), y |-> F(10)]>>
    /\ ctx["d"].transform[1][3] = F(30)
    /\ ctx["d"].transform[2][3] = F(50)

DeriveOps == {"trans", "scale", "rot_deg", "set_transform", "set_view"}

\* C7: deriving a context leaves every other bound context, the receiver included,
\* with all its fields as before; a context made by Context::new() keeps
\* transform[0][2] = 0 and transform[1][2] = 0 whatever is derived from it.
C7_DerivingLeavesReceiverUnchanged ==
    /\ [][last'.op \in DeriveOps =>
            \A s \in DOMAIN ctx : s # last'.dst => (s \in DOMAIN ctx' /\ ctx'[s] = ctx[s])]_vars
    /\ []("c" \in DOMAIN ctx /\ hist["c"] = <<[op |-> "new"]>> =>
            /\ FEq(ctx["c"].transform[1][3], F(0))
            /\ FEq(ctx["c"].transform[2][3], F(0)))

C7_Witness ==
    /\ last.op = "trans"
    /\ last.src = "c"
    /\ hist["c"] = <<[op |-> "new"]>>
    /\ ctx["d"].transform[1][3] = F(20)
    /\ ctx["c"].transform = identity

\* The view the constructor named by the first entry of a history produces.
ConstructorView(op) == IF op.op = "new" THEN identity ELSE AbsMatrix(op.w, op.h)

SetViewIndices(h) == {i \in DOMAIN h : h[i].op = "set_view"}

Max(S) == CHOOSE x \in S : \A y \in S : y <= x

\* C8 as stated: whatever operations produced a context, its view is the view its
\* constructor produced.
C8_ViewIsConstructorView ==
    \A s \in DOMAIN ctx : ctx[s].view = ConstructorView(hist[s][1])

\* C8 amended: the view of a context is the view its constructor produced unless
\* ViewTransform was set on the way, and then it is the value of the last such set;
\* get, set of Transform, trans, scale and rot_deg leave it alone.
C8_ViewChangesOnlyBySetView ==
    \A s \in DOMAIN ctx :
        ctx[s].view = IF SetViewIndices(hist[s]) = {}
                      THEN ConstructorView(hist[s][1])
                      ELSE hist[s][Max(SetViewIndices(hist[s]))].val

C8_Witness ==
    /\ "d" \in DOMAIN ctx
    /\ Len(hist["d"]) = 3
    /\ hist["d"][1].op = "abs"
    /\ hist["d"][2].op = "set_transform"
    /\ hist["d"][3].op = "scale"
    /\ ctx["d"].view = AbsMatrix(F(4), F(2))
    /\ ctx["d"].transform # ctx["d"].view

\* C9: scale(sx, sy) on a fresh Context::new() gives transform[0][0] = sx and
\* transform[1][1] = sy.
C9_ScaleOfFresh ==
    \A s \in DOMAIN ctx :
        (/\ Len(hist[s]) = 2
         /\ hist[s][1].op = "new"
         /\ hist[s][2].op = "scale")
        => /\ FEq(ctx[s].transform[1][1], hist[s][2].sx)
           /\ FEq(ctx[s].transform[2][2], hist[s][2].sy)

C9_Witness ==
    /\ "d" \in DOMAIN ctx
    /\ hist["d"] = <<[op |-> "new"], [op |-> "scale", sx |-> F(2), sy |-> F(3)]>>
    /\ ctx["d"].transform[1][1] = F(2)
    /\ ctx["d"].transform[2][2] = F(3)

\* Vertex i (1..6) of a flat buffer.
Vertex(buf, i) == <<buf[2 * i - 1], buf[2 * i]>>

UnitCorners == {<<0, 0>>, <<1, 0>>, <<0, 1>>, <<1, 1>>}

\* Corner k of the rectangle (0, 0, w, h) under m, and of the source rectangle
\* in the texture's UV space.
XyCorner(m, sr, k) == transform_pos(m, F(k[1] * sr[3]), F(k[2] * sr[4]))

UvCorner(tex, sr, k) ==
    <<FDiv(F(sr[1] + k[1] * sr[3]), F(tex.w)), FDiv(F(sr[2] + k[2] * sr[4]), F(tex.h))>>

\* C10: the tri_list_uv call of a draw passes 6 position vertices and 6 UV vertices;
\* vertex by vertex they are a corner of (0, 0, width, height) under context.transform
\* and the same corner of source_rectangle divided by the texture's size, and every
\* corner occurs: the positions are a function of width, height and transform alone.
C10_TriListUvBuffers ==
    [][(IsDrawStep /\ ~FEq(last'.image.color[4], F(0))) =>
          LET t == calls'[Len(calls) + 3]
              m == ctx[last'.src].transform
              sr == last'.image.source_rectangle
              tex == last'.image.texture
          IN  /\ t.op = "tri_list_uv"
              /\ Len(t.xy) = 12
              /\ Len(t.uv) = 12
              /\ \A i \in 1..6 : \E k \in UnitCorners :
                    /\ Vertex(t.xy, i) = XyCorner(m, sr, k)
                    /\ Vertex(t.uv, i) = UvCorner(tex, sr, k)
              /\ \A k \in UnitCorners : \E i \in 1..6 :
                    /\ Vertex(t.xy, i) = XyCorner(m, sr, k)
                    /\ Vertex(t.uv, i) = UvCorner(tex, sr, k)]_vars

C10_Witness ==
    /\ last.op = "draw"
    /\ last.image.source_rectangle = <<1, 0, 2, 2>>
    /\ last.src = "d"
    /\ ctx["d"].transform # ctx["d"].view
    /\ ctx["d"].view = AbsMatrix(F(4), F(2))
    /\ Len(calls) = 4
    /\ Vertex(calls[3].xy, 1) = transform_pos(ctx["d"].transform, F(0), F(0))
    /\ Vertex(calls[3].uv, 1) = <<<<1, 4>>, F(0)>>

====
